---- MODULE Spec2Model ----
(***************************************************************************)
(* A model of RATGDOComponent (components/ratgdo/ratgdo.cpp): the command  *)
(* dispatcher decode_packet, the door position estimator, the boot-time    *)
(* synchronisation query_status and the single-slot transmit coordinator.  *)
(*                                                                         *)
(* Units.  Time is millis(), in milliseconds.  A position is a float in    *)
(* [0.0, 1.0] in the code and an integer in 0..PosOne here (thousandths).  *)
(* A duration is a float of seconds with one decimal in the code and an    *)
(* integer number of milliseconds (a multiple of 100) here.                *)
(*                                                                         *)
(* Every C++ member function is an operator from the component's state, a  *)
(* record with one field per member, to the state after the call; an       *)
(* action reads the variables into that record (St), applies the handler  *)
(* and writes the result back (Commit).                                    *)
(***************************************************************************)
EXTENDS Integers, Sequences, FiniteSets, Bags, TLC

VARIABLES
    now,                    \* millis()
    input_gdo_pin,          \* level read on the GDO input line: TRUE = another transmitter is active
    door_state, door_position, opening_duration, closing_duration,
    start_opening, start_closing,
    door_start_moving, door_start_position, door_move_delta, moving_to_position,
    light_state, lock_state, hold_state, motor_state, motion_state, button_state,
    obstruction_state, obstruction_from_status_,
    obstruction_low_count,  \* isr_store_.obstruction_low_count
    input_obst_pin,         \* level of the obstruction sense line: TRUE = high
    last_millis, last_asleep,   \* the statics of obstruction_loop
    openings, ttc_time_seconds, restore_ttc_, restore_hold_state_,
    query_status_flags_, sync_failed,
    rolling_code_counter, tx_packet_, transmit_pending_,
    timers,                 \* the scheduler's pending timeouts and retries (a bag)
    wire,                   \* every packet written by sw_serial_.write, in order
    event,                  \* the last handler that ran, with its input and result
    budget,                 \* host calls (commands) still allowed in this run
    rx_budget,              \* received frames still allowed in this run
    obstruction_pc,         \* where obstruction_loop stands: "idle", or "classified" when
                            \* a tick has classified and not yet reset the count
    tally,                  \* the pulses the interrupt counted, and those the ticks read
    reading_msg, msg_start, byte_count, rx_packet,  \* the statics of gdo_state_loop
    rx_stream               \* the bytes read, those stored since the preamble, writes out of rx_packet

vars == << now, input_gdo_pin, door_state, door_position, opening_duration, closing_duration,
           start_opening, start_closing, door_start_moving, door_start_position,
           door_move_delta, moving_to_position, light_state, lock_state, hold_state,
           motor_state, motion_state, button_state, obstruction_state,
           obstruction_from_status_, obstruction_low_count, input_obst_pin, last_millis,
           last_asleep, openings, ttc_time_seconds, restore_ttc_,
           restore_hold_state_, query_status_flags_, sync_failed, rolling_code_counter,
           tx_packet_, transmit_pending_, timers, wire, event, budget, rx_budget,
           obstruction_pc, tally, reading_msg, msg_start, byte_count, rx_packet, rx_stream >>

-----------------------------------------------------------------------------
(* Bounds of the model. *)

\* frames received per run of the dispatcher specification
MaxDispatchFrames == 2

-----------------------------------------------------------------------------
(* Program constants. *)

SYNC_DELAY == 1000
MAX_CODES_WITHOUT_FLASH_WRITE == 10
\* 28 bits: the mask 0xfffffff of increment_rolling_code_counter and decode_packet
CounterModulus == 268435456
\* query_status: set_retry(750, 10, ..., 1.5f)
QueryRetryInterval == 750
QueryRetryAttempts == 10
QueryExtStatusDelay == 150
QueryTtcDelay == 300
QueryOpeningsDelay == 450
\* door_command: the release follows the press after 200 ms
ReleaseDelay == 200
\* the length of a wire packet
PACKET_LENGTH == 19
\* decode_packet, CLOSED with restore_ttc_: set_timeout(100, ...)
RestoreTtcDelay == 100
\* obstruction_loop
CHECK_PERIOD == 50
PULSES_LOWER_LIMIT == 3
AsleepPeriod == 700
\* the scheduler keeps a retry's countdown in a uint8_t
Uint8Modulus == 256

\* 1.0 as a position, in thousandths
PosOne == 1000
\* DOOR_POSITION_UNKNOWN (-1.0) and DOOR_DELTA_UNKNOWN (-2.0) of ratgdo.h
DOOR_POSITION_UNKNOWN == 0 - PosOne
DOOR_DELTA_UNKNOWN == 0 - 2 * PosOne
\* the default update_period of schedule_door_position_sync (ratgdo.h)
UPDATE_PERIOD == 500

\* this node's remote id (remote_id_) and the id of any other remote
REMOTE_ID == 1
OTHER_ID == 2

\* the query-status flags, as a set of names
QSF_ALL == {"QSF_STATUS", "QSF_EXT_STATUS", "QSF_TCC_DUR", "QSF_OPENINGS"}

-----------------------------------------------------------------------------
(* Enumerations of ratgdo_state.h. *)

DoorStates == <<"UNKNOWN", "OPEN", "CLOSED", "STOPPED", "OPENING", "CLOSING">>

\* to_DoorState(nibble, DoorState::UNKNOWN): the enumerator with that value, else UNKNOWN
to_DoorState(nibble) ==
    IF nibble + 1 \in DOMAIN DoorStates THEN DoorStates[nibble + 1] ELSE "UNKNOWN"

light_state_toggle(l) ==
    CASE l = "OFF" -> "ON"
      [] l = "ON" -> "OFF"
      [] OTHER -> l

lock_state_toggle(l) ==
    CASE l = "UNLOCKED" -> "LOCKED"
      [] l = "LOCKED" -> "UNLOCKED"
      [] OTHER -> l

hold_state_toggle(h) ==
    CASE h = "HOLD_DISABLED" -> "HOLD_ENABLED"
      [] h = "HOLD_ENABLED" -> "HOLD_DISABLED"
      [] OTHER -> h

\* the payload of a command: a base value of namespace data and the button bits or-ed in
Data(base, bits) == [base |-> base, bits |-> bits]
NoData == Data("NONE", {})

\* a received frame after decode_wireline: the low 28 bits of fixed, the command and
\* the payload's nibble, byte1 and byte2
Frame(id, cmd, nibble, byte1, byte2) ==
    [fixed_id |-> id, cmd |-> cmd, nibble |-> nibble, byte1 |-> byte1, byte2 |-> byte2]
NoFrame == Frame(0, "NONE", 0, 0, 0)

\* a packet encode_wireline builds: the rolling code, this remote's id, the command, the data
Packet(rolling, id, cmd, data) ==
    [rolling |-> rolling, fixed_id |-> id, cmd |-> cmd, data |-> data]
NoPacket == Packet(0, 0, "NONE", NoData)

NoEvent == [op |-> "none", frame |-> NoFrame, ret |-> "NONE", arg |-> 0, data |-> NoData,
            pending |-> FALSE, was_state |-> "UNKNOWN", was_position |-> DOOR_POSITION_UNKNOWN,
            came_from |-> "UNKNOWN", log |-> << >>, last_pulse |-> 0, heard |-> {}]

-----------------------------------------------------------------------------
(* The component's state as one record, and back. *)

St ==
    [now |-> now, input_gdo_pin |-> input_gdo_pin,
     door_state |-> door_state, door_position |-> door_position,
     opening_duration |-> opening_duration, closing_duration |-> closing_duration,
     start_opening |-> start_opening, start_closing |-> start_closing,
     door_start_moving |-> door_start_moving, door_start_position |-> door_start_position,
     door_move_delta |-> door_move_delta, moving_to_position |-> moving_to_position,
     light_state |-> light_state, lock_state |-> lock_state, hold_state |-> hold_state,
     motor_state |-> motor_state, motion_state |-> motion_state,
     button_state |-> button_state, obstruction_state |-> obstruction_state,
     obstruction_from_status_ |-> obstruction_from_status_,
     obstruction_low_count |-> obstruction_low_count, input_obst_pin |-> input_obst_pin,
     last_millis |-> last_millis, last_asleep |-> last_asleep,
     openings |-> openings, ttc_time_seconds |-> ttc_time_seconds,
     restore_ttc_ |-> restore_ttc_, restore_hold_state_ |-> restore_hold_state_,
     query_status_flags_ |-> query_status_flags_, sync_failed |-> sync_failed,
     rolling_code_counter |-> rolling_code_counter, tx_packet_ |-> tx_packet_,
     transmit_pending_ |-> transmit_pending_, timers |-> timers, wire |-> wire,
     event |-> event, budget |-> budget, rx_budget |-> rx_budget,
     obstruction_pc |-> obstruction_pc, tally |-> tally,
     reading_msg |-> reading_msg, msg_start |-> msg_start, byte_count |-> byte_count,
     rx_packet |-> rx_packet, rx_stream |-> rx_stream]

Commit(r) ==
    /\ now' = r.now
    /\ input_gdo_pin' = r.input_gdo_pin
    /\ door_state' = r.door_state
    /\ door_position' = r.door_position
    /\ opening_duration' = r.opening_duration
    /\ closing_duration' = r.closing_duration
    /\ start_opening' = r.start_opening
    /\ start_closing' = r.start_closing
    /\ door_start_moving' = r.door_start_moving
    /\ door_start_position' = r.door_start_position
    /\ door_move_delta' = r.door_move_delta
    /\ moving_to_position' = r.moving_to_position
    /\ light_state' = r.light_state
    /\ lock_state' = r.lock_state
    /\ hold_state' = r.hold_state
    /\ motor_state' = r.motor_state
    /\ motion_state' = r.motion_state
    /\ button_state' = r.button_state
    /\ obstruction_state' = r.obstruction_state
    /\ obstruction_from_status_' = r.obstruction_from_status_
    /\ obstruction_low_count' = r.obstruction_low_count
    /\ input_obst_pin' = r.input_obst_pin
    /\ last_millis' = r.last_millis
    /\ last_asleep' = r.last_asleep
    /\ openings' = r.openings
    /\ ttc_time_seconds' = r.ttc_time_seconds
    /\ restore_ttc_' = r.restore_ttc_
    /\ restore_hold_state_' = r.restore_hold_state_
    /\ query_status_flags_' = r.query_status_flags_
    /\ sync_failed' = r.sync_failed
    /\ rolling_code_counter' = r.rolling_code_counter
    /\ tx_packet_' = r.tx_packet_
    /\ transmit_pending_' = r.transmit_pending_
    /\ timers' = r.timers
    /\ wire' = r.wire
    /\ event' = r.event
    /\ budget' = r.budget
    /\ rx_budget' = r.rx_budget
    /\ obstruction_pc' = r.obstruction_pc
    /\ tally' = r.tally
    /\ reading_msg' = r.reading_msg
    /\ msg_start' = r.msg_start
    /\ byte_count' = r.byte_count
    /\ rx_packet' = r.rx_packet
    /\ rx_stream' = r.rx_stream

-----------------------------------------------------------------------------
(* The scheduler the component uses: set_timeout, set_retry and cancel.     *)
(* A pending item is a record: its name ("" when the call gives none), the  *)
(* closure it runs (fn), when it is due, the data its closure captured, and *)
(* for a retry the attempts left and the wait before the next attempt.      *)

Timer(kind, name, fn, due, data, left, wait) ==
    [kind |-> kind, name |-> name, fn |-> fn, due |-> due, data |-> data,
     left |-> left, wait |-> wait]

WithoutNamed(T, kind, name) ==
    LET keep == {x \in DOMAIN T : ~(x.kind = kind /\ x.name = name)}
    IN  [x \in keep |-> T[x]]

cancel_timeout(s, name) == [s EXCEPT !.timers = WithoutNamed(s.timers, "timeout", name)]

cancel_retry(s, name) == [s EXCEPT !.timers = WithoutNamed(s.timers, "retry", name)]

\* set_timeout(name, delay, f): a named timeout replaces the pending one of that name
set_timeout(s, name, fn, delay, data) ==
    LET T == IF name = "" THEN s.timers ELSE WithoutNamed(s.timers, "timeout", name)
    IN  [s EXCEPT !.timers = T (+) SetToBag({Timer("timeout", name, fn, s.now + delay, data, 0, 0)})]

\* set_retry(name, initial_wait_time, max_attempts, f): f first runs on the next pass
\* of the scheduler, then after initial_wait_time, the wait growing by the backoff
set_retry(s, name, fn, initial_wait_time, max_attempts) ==
    LET T == IF name = "" THEN s.timers ELSE WithoutNamed(s.timers, "retry", name)
    IN  [s EXCEPT !.timers = T (+) SetToBag({Timer("retry", name, fn, s.now, NoData,
                                                   max_attempts, initial_wait_time)})]

Due(T, t) == {x \in DOMAIN T : x.due <= t}

-----------------------------------------------------------------------------
(* Transmit coordinator. *)

\* increment_rolling_code_counter, were it not to mask the sum
increment_rolling_code_counter_unmasked(s, delta) ==
    [s EXCEPT !.rolling_code_counter = @ + delta]

increment_rolling_code_counter(s, delta) ==
    [s EXCEPT !.rolling_code_counter = (@ + delta) % CounterModulus]

encode_packet(s, command, data, increment) ==
    LET s1 == [s EXCEPT !.tx_packet_ = Packet(s.rolling_code_counter, REMOTE_ID, command, data)]
    IN  IF increment THEN increment_rolling_code_counter(s1, 1) ELSE s1

\* transmit_packet, and what it returns
transmit_packet_ok(s) == ~ s.input_gdo_pin

\* transmit_packet, were it to write without reading the line
transmit_packet_ignoring_line(s) ==
    [s EXCEPT !.wire = Append(@, s.tx_packet_), !.transmit_pending_ = FALSE]

transmit_packet(s) ==
    IF s.input_gdo_pin
    THEN [s EXCEPT !.transmit_pending_ = TRUE]
    ELSE [s EXCEPT !.wire = Append(@, s.tx_packet_), !.transmit_pending_ = FALSE]

\* send_command, were it to encode over a pending packet
send_command_overwriting(s, command, data, increment) ==
    transmit_packet(encode_packet(s, command, data, increment))

send_command(s, command, data, increment) ==
    transmit_packet(IF ~ s.transmit_pending_
                    THEN encode_packet(s, command, data, increment)
                    ELSE s)

\* data |= (1 << 16); data |= (1 << 8); send the press; 200 ms later the release
door_command(s, base) ==
    LET data == Data(base, {16, 8})
    IN  set_timeout(send_command(s, "DOOR_ACTION", data, FALSE), "", "release", ReleaseDelay, data)

\* the closure door_command schedules: data2 = data & ~(1 << 8)
door_command_release(s, data) ==
    send_command(s, "DOOR_ACTION", Data(data.base, data.bits \ {8}), TRUE)

-----------------------------------------------------------------------------
(* Door position estimator. *)

clamp(v, lo, hi) == IF v < lo THEN lo ELSE IF v > hi THEN hi ELSE v

\* round(duration * 10) / 10 of the elapsed milliseconds, as milliseconds
RoundTenth(elapsed) == 100 * ((elapsed + 50) \div 100)

\* The estimate start + (now - door_start_moving) / (1000 * duration), clamped.  With
\* an unknown duration (0) the quotient is infinite and the clamp gives the end of
\* travel: millis() has moved on by the time any update runs, so it is never 0 / 0.
door_position_update(s) ==
    IF \/ s.door_start_moving = 0
       \/ s.door_start_position = DOOR_POSITION_UNKNOWN
       \/ s.door_move_delta = DOOR_DELTA_UNKNOWN
    THEN s
    ELSE LET up == s.door_move_delta > 0
             duration == IF up THEN s.opening_duration ELSE s.closing_duration
             elapsed == s.now - s.door_start_moving
             travel == IF duration = 0 THEN 2 * PosOne ELSE (elapsed * PosOne) \div duration
             position == IF up THEN s.door_start_position + travel
                         ELSE s.door_start_position - travel
         IN  [s EXCEPT !.door_position = clamp(position, 0, PosOne)]

cancel_position_sync_callbacks(s) ==
    IF s.door_start_moving # 0
    THEN [cancel_timeout(cancel_retry(cancel_timeout(s, "move_to_position"),
                                      "position_sync_while_moving"),
                         "door_status_update")
            EXCEPT !.door_start_moving = 0,
                   !.door_start_position = DOOR_POSITION_UNKNOWN,
                   !.door_move_delta = DOOR_DELTA_UNKNOWN]
    ELSE s

schedule_door_position_sync(s) ==
    LET duration == IF s.door_move_delta > 0 THEN s.opening_duration ELSE s.closing_duration
        count == duration \div UPDATE_PERIOD
    IN  set_retry(s, "position_sync_while_moving", "door_position_update", UPDATE_PERIOD, count)

\* declared in ratgdo.h and called by decode_packet, defined nowhere in ratgdo.cpp
position_sync_while_opening(s, delta) == s

position_sync_while_closing(s, delta) == s

\* the calibration of opening_duration, were it attempted on every traversal
calibrate_opening_unguarded(s, new_state, prev) ==
    LET a == IF new_state = "OPENING" /\ prev = "CLOSED"
             THEN [s EXCEPT !.start_opening = s.now] ELSE s
        b == IF new_state = "OPEN" /\ prev = "OPENING" /\ a.start_opening > 0
             THEN [a EXCEPT !.opening_duration = RoundTenth(a.now - a.start_opening)]
             ELSE a
    IN  IF new_state = "STOPPED" THEN [b EXCEPT !.start_opening = -1] ELSE b

\* decode_packet, STATUS: the calibration of opening_duration
calibrate_opening(s, new_state, prev) ==
    IF s.opening_duration # 0 THEN s
    ELSE LET a == IF new_state = "OPENING" /\ prev = "CLOSED"
                  THEN [s EXCEPT !.start_opening = s.now] ELSE s
             b == IF new_state = "OPEN" /\ prev = "OPENING" /\ a.start_opening > 0
                  THEN [a EXCEPT !.opening_duration = RoundTenth(a.now - a.start_opening)]
                  ELSE a
         IN  IF new_state = "STOPPED" THEN [b EXCEPT !.start_opening = -1] ELSE b

\* decode_packet, STATUS: the calibration of closing_duration
calibrate_closing(s, new_state, prev) ==
    IF s.closing_duration # 0 THEN s
    ELSE LET a == IF new_state = "CLOSING" /\ prev = "OPEN"
                  THEN [s EXCEPT !.start_closing = s.now] ELSE s
             b == IF new_state = "CLOSED" /\ prev = "CLOSING" /\ a.start_closing > 0
                  THEN [a EXCEPT !.closing_duration = RoundTenth(a.now - a.start_closing)]
                  ELSE a
         IN  IF new_state = "STOPPED" THEN [b EXCEPT !.start_closing = -1] ELSE b

\* the door started moving, were the watchdog scheduled without its name
status_moving_unnamed_watchdog(s, up, prev) ==
    LET a == IF prev = (IF up THEN "CLOSING" ELSE "OPENING")
             THEN [cancel_position_sync_callbacks(door_position_update(s))
                     EXCEPT !.door_move_delta = DOOR_DELTA_UNKNOWN]
             ELSE s
        b == [a EXCEPT !.door_start_moving = a.now, !.door_start_position = a.door_position]
        c == IF b.door_move_delta = DOOR_DELTA_UNKNOWN
             THEN [b EXCEPT !.door_move_delta =
                       (IF up THEN PosOne ELSE 0) - b.door_start_position]
             ELSE b
        d == schedule_door_position_sync(c)
    IN  set_timeout(d, "", "door_status_update",
                    (IF up THEN d.opening_duration ELSE d.closing_duration) + 1000, NoData)

\* decode_packet, STATUS: the door started opening (up) or closing
status_moving(s, up, prev) ==
    LET a == IF prev = (IF up THEN "CLOSING" ELSE "OPENING")
             THEN [cancel_position_sync_callbacks(door_position_update(s))
                     EXCEPT !.door_move_delta = DOOR_DELTA_UNKNOWN]
             ELSE s
        b == [a EXCEPT !.door_start_moving = a.now, !.door_start_position = a.door_position]
        c == IF b.door_move_delta = DOOR_DELTA_UNKNOWN
             THEN [b EXCEPT !.door_move_delta =
                       (IF up THEN PosOne ELSE 0) - b.door_start_position]
             ELSE b
        d == schedule_door_position_sync(c)
    IN  set_timeout(d, "door_status_update", "door_status_update",
                    (IF up THEN d.opening_duration ELSE d.closing_duration) + 1000, NoData)

\* the branch on the new door state, were OPEN and CLOSED to keep the running estimate
status_transition_without_snap(s, new_state, prev) ==
    CASE new_state = "OPENING" -> status_moving(s, TRUE, prev)
      [] new_state = "CLOSING" -> status_moving(s, FALSE, prev)
      [] OTHER -> cancel_position_sync_callbacks(door_position_update(s))

\* the branch on the new door state, were STOPPED to keep an unknown position
status_transition_without_guess(s, new_state, prev) ==
    CASE new_state = "OPENING" -> status_moving(s, TRUE, prev)
      [] new_state = "CLOSING" -> status_moving(s, FALSE, prev)
      [] new_state = "STOPPED" -> cancel_position_sync_callbacks(door_position_update(s))
      [] new_state = "OPEN" ->
            cancel_position_sync_callbacks([s EXCEPT !.door_position = PosOne])
      [] new_state = "CLOSED" ->
            LET a == [s EXCEPT !.door_position = 0]
            IN  IF a.restore_ttc_
                THEN [set_timeout(a, "", "restore_ttc", RestoreTtcDelay, NoData)
                        EXCEPT !.restore_ttc_ = FALSE]
                ELSE a
      [] OTHER ->
            IF \/ s.closing_duration = 0 \/ s.opening_duration = 0
               \/ s.door_position = DOOR_POSITION_UNKNOWN
            THEN [s EXCEPT !.door_position = PosOne \div 2] ELSE s

\* decode_packet, STATUS: the branch on the new door state
status_transition(s, new_state, prev) ==
    CASE new_state = "OPENING" -> status_moving(s, TRUE, prev)
      [] new_state = "CLOSING" -> status_moving(s, FALSE, prev)
      [] new_state = "STOPPED" ->
            LET a == door_position_update(s)
                b == IF a.door_position = DOOR_POSITION_UNKNOWN
                     THEN [a EXCEPT !.door_position = PosOne \div 2] ELSE a
            IN  cancel_position_sync_callbacks(b)
      [] new_state = "OPEN" ->
            cancel_position_sync_callbacks([s EXCEPT !.door_position = PosOne])
      [] new_state = "CLOSED" ->
            LET a == [s EXCEPT !.door_position = 0]
            IN  IF a.restore_ttc_
                THEN [set_timeout(a, "", "restore_ttc", RestoreTtcDelay, NoData)
                        EXCEPT !.restore_ttc_ = FALSE]
                ELSE a
      [] OTHER ->
            IF \/ s.closing_duration = 0 \/ s.opening_duration = 0
               \/ s.door_position = DOOR_POSITION_UNKNOWN
            THEN [s EXCEPT !.door_position = PosOne \div 2] ELSE s

\* decode_packet, STATUS: position_sync_while_* once, then the cancel on a terminal state
status_legacy_sync(s, new_state) ==
    LET a == IF new_state = "OPENING" /\ ~ s.moving_to_position
             THEN [position_sync_while_opening(s, PosOne - s.door_position)
                     EXCEPT !.moving_to_position = TRUE]
             ELSE s
        b == IF new_state = "CLOSING" /\ ~ a.moving_to_position
             THEN [position_sync_while_closing(a, a.door_position)
                     EXCEPT !.moving_to_position = TRUE]
             ELSE a
    IN  IF new_state \in {"OPEN", "CLOSED", "STOPPED"}
        THEN cancel_position_sync_callbacks(b) ELSE b

-----------------------------------------------------------------------------
(* Hold and time-to-close commands. *)

toggle_hold(s) ==
    send_command([s EXCEPT !.hold_state = hold_state_toggle(@)],
                 "TTC_CANCEL", Data("TTC_CANCEL_TOGGLE_HOLD", {}), TRUE)

hold_enable(s) == IF s.hold_state = "HOLD_DISABLED" THEN toggle_hold(s) ELSE s

turn_ttc_off(s) == send_command(s, "TTC_CANCEL", Data("TTC_CANCEL_OFF", {}), TRUE)

\* the payload is built from the duration: it is kept as the duration itself
set_ttc_sec(s, duration) ==
    send_command(s, "TTC_SET_DURATION", Data(duration, {}), TRUE)

-----------------------------------------------------------------------------
(* Command dispatcher. *)

Bit(byte, n) == (byte \div (2 ^ n)) % 2

\* decode_packet past the self-echo test, for the STATUS command
decode_status(s, f) ==
    LET new_state == to_DoorState(f.nibble)
        prev == s.door_state
        a == [s EXCEPT !.query_status_flags_ = @ \cup {"QSF_STATUS"}]
        b == calibrate_closing(calibrate_opening(a, new_state, prev), new_state, prev)
        c == status_legacy_sync(status_transition(b, new_state, prev), new_state)
        d == [c EXCEPT !.door_state = new_state,
                       !.light_state = IF Bit(f.byte2, 1) = 1 THEN "ON" ELSE "OFF",
                       !.lock_state = IF Bit(f.byte2, 0) = 1 THEN "LOCKED" ELSE "UNLOCKED",
                       !.motion_state = "CLEAR",
                       !.motor_state = "OFF",
                       !.obstruction_state =
                           IF c.obstruction_from_status_
                           THEN (IF Bit(f.byte1, 6) = 1 THEN "CLEAR" ELSE "OBSTRUCTED")
                           ELSE @]
    IN  IF new_state = "CLOSED" /\ new_state # prev
        THEN send_command(d, "GET_OPENINGS", NoData, TRUE)
        ELSE d

\* TTC_DURATION, were the value 1 treated as any unsupported value
decode_ttc_duration_strict(s, f) ==
    LET seconds == f.byte1 * 256 + f.byte2
        a == [s EXCEPT !.query_status_flags_ = @ \cup {"QSF_TCC_DUR"}]
        b == [a EXCEPT !.ttc_time_seconds = IF seconds \in {60, 300, 600, 0} THEN seconds ELSE 0]
    IN  IF b.restore_hold_state_ /\ ~ b.restore_ttc_
        THEN [hold_enable(b) EXCEPT !.restore_hold_state_ = FALSE]
        ELSE b

decode_ttc_duration(s, f) ==
    LET seconds == f.byte1 * 256 + f.byte2
        a == [s EXCEPT !.query_status_flags_ = @ \cup {"QSF_TCC_DUR"}]
        b == IF seconds \in {60, 300, 600, 0}
             THEN [a EXCEPT !.ttc_time_seconds = seconds]
             ELSE IF seconds # 1 THEN [a EXCEPT !.ttc_time_seconds = 0] ELSE a
    IN  IF b.restore_hold_state_ /\ ~ b.restore_ttc_
        THEN [hold_enable(b) EXCEPT !.restore_hold_state_ = FALSE]
        ELSE b

decode_ext_status(s, f) ==
    LET a == [s EXCEPT !.query_status_flags_ = @ \cup {"QSF_EXT_STATUS"}]
    IN  CASE f.byte1 = 9 -> [a EXCEPT !.hold_state = "HOLD_DISABLED", !.ttc_time_seconds = 0]
          [] f.byte1 = 10 -> [a EXCEPT !.hold_state = "HOLD_ENABLED"]
          [] f.byte1 \in {12, 1} -> [a EXCEPT !.hold_state = "HOLD_DISABLED"]
          [] OTHER -> a

decode_openings_unguarded(s, f) ==
    [s EXCEPT !.openings = f.byte1 * 256 + f.byte2,
              !.query_status_flags_ = @ \cup {"QSF_OPENINGS"}]

\* OPENINGS, were the flag set by every frame and openings still guarded
decode_openings_flagging(s, f) ==
    IF f.nibble = 0 \/ s.openings # 0
    THEN [s EXCEPT !.openings = f.byte1 * 256 + f.byte2,
                   !.query_status_flags_ = @ \cup {"QSF_OPENINGS"}]
    ELSE [s EXCEPT !.query_status_flags_ = @ \cup {"QSF_OPENINGS"}]

decode_openings(s, f) ==
    IF f.nibble = 0 \/ s.openings # 0
    THEN [s EXCEPT !.openings = f.byte1 * 256 + f.byte2,
                   !.query_status_flags_ = @ \cup {"QSF_OPENINGS"}]
    ELSE s

\* decode_packet past the self-echo test: the dispatch on the command
dispatch(s, f) ==
    CASE f.cmd = "STATUS" -> decode_status(s, f)
      [] f.cmd = "LIGHT" ->
            CASE f.nibble = 0 -> [s EXCEPT !.light_state = "OFF"]
              [] f.nibble = 1 -> [s EXCEPT !.light_state = "ON"]
              [] f.nibble = 2 -> [s EXCEPT !.light_state = light_state_toggle(@)]
              [] OTHER -> s
      [] f.cmd = "MOTOR_ON" -> [s EXCEPT !.motor_state = "ON"]
      [] f.cmd = "DOOR_ACTION" ->
            [s EXCEPT !.button_state = IF Bit(f.byte1, 0) = 1 THEN "PRESSED" ELSE "RELEASED"]
      [] f.cmd = "OPENINGS" -> decode_openings(s, f)
      [] f.cmd = "MOTION" ->
            LET a == [s EXCEPT !.motion_state = "DETECTED"]
            IN  IF a.light_state = "OFF"
                THEN send_command(a, "GET_STATUS", NoData, TRUE) ELSE a
      [] f.cmd = "TTC_DURATION" -> decode_ttc_duration(s, f)
      [] f.cmd = "EXT_STATUS" -> decode_ext_status(s, f)
      [] OTHER -> s

decode_packet_without_echo_test(s, f) == dispatch(s, f)

\* the state decode_packet leaves
decode_packet(s, f) ==
    IF f.fixed_id = REMOTE_ID THEN s ELSE dispatch(s, f)

\* the value decode_packet returns
decode_packet_ret(s, f) == IF f.fixed_id = REMOTE_ID THEN "UNKNOWN" ELSE f.cmd

-----------------------------------------------------------------------------
(* Obstruction classifier. *)

\* RATGDOStore::isr_obstruction, on an edge of the sense line to level (TRUE = high):
\* an edge to low is a pulse
isr_obstruction(s, level) ==
    [s EXCEPT !.input_obst_pin = level,
              !.obstruction_low_count = IF level THEN @ ELSE @ + 1]

\* obstruction_loop within a tick, up to the reset: the count is read and classified
obstruction_classify(s) ==
    IF s.obstruction_low_count > PULSES_LOWER_LIMIT
    THEN [s EXCEPT !.obstruction_state = "CLEAR"]
    ELSE IF s.obstruction_low_count = 0
         THEN IF ~ s.input_obst_pin
              THEN [s EXCEPT !.last_asleep = s.now]
              ELSE IF s.now - s.last_asleep > AsleepPeriod
                   THEN [s EXCEPT !.obstruction_state = "OBSTRUCTED"]
                   ELSE s
         ELSE s

\* obstruction_loop, the end of a tick: last_millis is set and the count written 0
obstruction_reset(s) == [s EXCEPT !.last_millis = s.now, !.obstruction_low_count = 0]

\* obstruction_loop, were the count kept when a tick classifies nothing
obstruction_loop_keeping_count(s) ==
    IF s.now - s.last_millis > CHECK_PERIOD
    THEN IF s.obstruction_low_count > PULSES_LOWER_LIMIT
         THEN [s EXCEPT !.obstruction_state = "CLEAR", !.last_millis = s.now,
                        !.obstruction_low_count = 0]
         ELSE [s EXCEPT !.last_millis = s.now]
    ELSE s

\* obstruction_loop, were a steady high line an obstruction whenever it is seen
obstruction_loop_without_asleep(s) ==
    IF s.now - s.last_millis > CHECK_PERIOD
    THEN LET a == IF s.obstruction_low_count > PULSES_LOWER_LIMIT
                  THEN [s EXCEPT !.obstruction_state = "CLEAR"]
                  ELSE IF s.obstruction_low_count = 0 /\ s.input_obst_pin
                       THEN [s EXCEPT !.obstruction_state = "OBSTRUCTED"]
                       ELSE s
         IN  [a EXCEPT !.last_millis = s.now, !.obstruction_low_count = 0]
    ELSE s

obstruction_loop(s) ==
    IF s.now - s.last_millis > CHECK_PERIOD
    THEN LET a == IF s.obstruction_low_count > PULSES_LOWER_LIMIT
                  THEN [s EXCEPT !.obstruction_state = "CLEAR"]
                  ELSE IF s.obstruction_low_count = 0
                       THEN IF ~ s.input_obst_pin
                            THEN [s EXCEPT !.last_asleep = s.now]
                            ELSE IF s.now - s.last_asleep > AsleepPeriod
                                 THEN [s EXCEPT !.obstruction_state = "OBSTRUCTED"]
                                 ELSE s
                       ELSE s
         IN  [a EXCEPT !.last_millis = s.now, !.obstruction_low_count = 0]
    ELSE s

-----------------------------------------------------------------------------
(* Synchronisation. *)

query_status(s) ==
    set_retry([s EXCEPT !.query_status_flags_ = {}], "", "query_status",
              QueryRetryInterval, QueryRetryAttempts)

\* the closure of query_status, were it not to test the flags
query_status_retry_unconditional(s, r) ==
    LET a == send_command(s, "GET_STATUS", NoData, TRUE)
        b == set_timeout(a, "", "get_ext_status", QueryExtStatusDelay, NoData)
        c == set_timeout(b, "", "ttc_get_duration", QueryTtcDelay, NoData)
        d == set_timeout(c, "", "get_openings", QueryOpeningsDelay, NoData)
    IN  IF r = 0 THEN [d EXCEPT !.sync_failed = TRUE] ELSE d

\* the closure of query_status, were it to give up one attempt early
query_status_retry_early(s, r) ==
    IF s.query_status_flags_ = QSF_ALL THEN s
    ELSE LET a == send_command(s, "GET_STATUS", NoData, TRUE)
             b == set_timeout(a, "", "get_ext_status", QueryExtStatusDelay, NoData)
             c == set_timeout(b, "", "ttc_get_duration", QueryTtcDelay, NoData)
             d == set_timeout(c, "", "get_openings", QueryOpeningsDelay, NoData)
         IN  IF r <= 1 THEN [d EXCEPT !.sync_failed = TRUE] ELSE d

\* what the closure of query_status returns when called with r attempts left
query_status_retry_ret(s, r) ==
    IF s.query_status_flags_ = QSF_ALL THEN "DONE" ELSE "RETRY"

\* the state the closure of query_status leaves
query_status_retry(s, r) ==
    IF s.query_status_flags_ = QSF_ALL THEN s
    ELSE LET a == send_command(s, "GET_STATUS", NoData, TRUE)
             b == set_timeout(a, "", "get_ext_status", QueryExtStatusDelay, NoData)
             c == set_timeout(b, "", "ttc_get_duration", QueryTtcDelay, NoData)
             d == set_timeout(c, "", "get_openings", QueryOpeningsDelay, NoData)
         IN  IF r = 0 THEN [d EXCEPT !.sync_failed = TRUE] ELSE d

sync(s) == query_status(increment_rolling_code_counter(s, MAX_CODES_WITHOUT_FLASH_WRITE))

-----------------------------------------------------------------------------
(* Door commands of the host. *)

open_door(s) == IF s.door_state = "OPENING" THEN s ELSE door_command(s, "DOOR_OPEN")

close_door(s) ==
    IF s.door_state \in {"CLOSING", "OPENING"} THEN s ELSE door_command(s, "DOOR_CLOSE")

stop_door(s) ==
    IF s.door_state \notin {"OPENING", "CLOSING"} THEN s ELSE door_command(s, "DOOR_STOP")

toggle_door(s) == IF s.door_state = "OPENING" THEN s ELSE door_command(s, "DOOR_TOGGLE")

\* the target of a request, as kept with the pending stop
Target(position) == Data("TARGET", {position})

\* door_move_to_position, were it not to test the duration
door_move_to_position_unchecked(s, position) ==
    IF s.door_state \in {"OPENING", "CLOSING"} THEN s
    ELSE LET delta == position - s.door_position
             up == delta > 0
             duration == IF up THEN s.opening_duration ELSE s.closing_duration
             operation_time == (duration * (IF up THEN delta ELSE 0 - delta)) \div PosOne
         IN  IF delta = 0 THEN s
             ELSE set_timeout(door_command([s EXCEPT !.door_move_delta = delta],
                                           IF up THEN "DOOR_OPEN" ELSE "DOOR_CLOSE"),
                              "move_to_position", "move_to_position", operation_time,
                              Target(position))

\* operation_time = 1000 * duration * delta, in ms.  The closure of the timeout uses
\* nothing of the request; the target is kept with the pending item for reference.
door_move_to_position(s, position) ==
    IF s.door_state \in {"OPENING", "CLOSING"} THEN s
    ELSE LET delta == position - s.door_position
             up == delta > 0
             duration == IF up THEN s.opening_duration ELSE s.closing_duration
             operation_time == (duration * (IF up THEN delta ELSE 0 - delta)) \div PosOne
         IN  IF delta = 0 \/ duration = 0 THEN s
             ELSE set_timeout(door_command([s EXCEPT !.door_move_delta = delta],
                                           IF up THEN "DOOR_OPEN" ELSE "DOOR_CLOSE"),
                              "move_to_position", "move_to_position", operation_time,
                              Target(position))

light_on(s) ==
    send_command([s EXCEPT !.light_state = "ON"], "LIGHT", Data("LIGHT_ON", {}), TRUE)

light_off(s) ==
    send_command([s EXCEPT !.light_state = "OFF"], "LIGHT", Data("LIGHT_OFF", {}), TRUE)

-----------------------------------------------------------------------------
(* Actions.  Each records in event the handler that ran, with the door state and *)
(* position it found, and the door state from which the one it leaves was        *)
(* entered.                                                                      *)

\* the data of a LIGHT packet, by its nibble
LightData == [n \in 0..2 |-> CASE n = 0 -> "LIGHT_OFF" [] n = 1 -> "LIGHT_ON"
                                [] OTHER -> "LIGHT_TOGGLE"]

\* event.heard keeps which of the four answers to query_status were decoded, of the
\* opener, since query_status() was last called
Answers == {"STATUS", "EXT_STATUS", "TTC_DURATION", "OPENINGS"}

\* event.log keeps the last LogLen of: the LIGHT frames decoded, and the values the
\* subscriber of light_state was called with, in the order they happened
LogLen == 4

LastOf(q, n) == IF Len(q) <= n THEN q ELSE SubSeq(q, Len(q) - n + 1, Len(q))

\* subscribe_light_state(f), were the call deferred without a name
subscribe_light_state_unnamed(r) ==
    IF r.light_state # light_state
    THEN set_timeout(r, "", "notify_light_state", 0, Data(r.light_state, {}))
    ELSE r

\* subscribe_light_state(f): an assignment that changes light_state calls the observer,
\* which defers f(state) under the name "light_state"; r is the state a handler leaves
subscribe_light_state(r) ==
    IF r.light_state # light_state
    THEN set_timeout(r, "light_state", "notify_light_state", 0, Data(r.light_state, {}))
    ELSE r

\* the state r a handler leaves, after the observers of the cells subscribed to
Observed(r, cells) == IF "light_state" \in cells THEN subscribe_light_state(r) ELSE r

Ev(op, frame, ret, arg, data, pending) ==
    LET reported == IF op = "loop" /\ frame.cmd = "STATUS" /\ frame.fixed_id # REMOTE_ID
                    THEN to_DoorState(frame.nibble) ELSE door_state
        said == IF op = "notify_light_state" THEN << data.base >>
                ELSE IF /\ op = "loop" /\ frame.cmd = "LIGHT" /\ frame.fixed_id # REMOTE_ID
                        /\ frame.nibble \in DOMAIN LightData
                     THEN << LightData[frame.nibble] >>
                     ELSE << >>
    IN  [op |-> op, frame |-> frame, ret |-> ret, arg |-> arg, data |-> data,
         pending |-> pending, was_state |-> door_state, was_position |-> door_position,
         came_from |-> IF reported # door_state THEN door_state ELSE event.came_from,
         log |-> LastOf(event.log \o said, LogLen),
         last_pulse |-> IF op = "isr_obstruction" /\ arg = 1 THEN now ELSE event.last_pulse,
         heard |-> IF op = "sync" \/ (op = "query_status" /\ ret = "NONE") THEN {}
                   ELSE IF /\ op = "loop" /\ frame.fixed_id # REMOTE_ID
                           /\ frame.cmd \in Answers
                        THEN event.heard \cup {frame.cmd}
                        ELSE event.heard]

\* the three byte values of the preamble, and the value msg_start holds at its end
PreambleBytes == {85, 1, 0}
Preamble == 5570816

\* what a write past the end of rx_packet may leave: nothing the statics show, or
\* reading_msg or byte_count overwritten
OutsideOutcomes == {"none", "reading_msg", "byte_count"}

\* the byte (b) completes a packet
Completes(s) == s.reading_msg /\ s.byte_count = PACKET_LENGTH - 1

\* gdo_state_loop with one byte (b) available: f is the frame decode_packet finds in a
\* completed packet, o the outcome of a write past the end of rx_packet
gdo_state_loop(s, b, f, o) ==
    LET read == [s EXCEPT !.rx_stream.consumed = @ + 1]
        shifted == (s.msg_start * 256 + b) % 16777216
        counted == (s.byte_count + 1) % 65536
    IN  IF ~ s.reading_msg
        THEN IF b \notin PreambleBytes
             THEN [read EXCEPT !.byte_count = 0]
             ELSE IF shifted = Preamble
                  THEN [read EXCEPT !.msg_start = shifted, !.byte_count = counted,
                                    !.rx_packet = [i \in DOMAIN @ |->
                                        CASE i = 0 -> 85 [] i = 1 -> 1 [] i = 2 -> 0
                                          [] OTHER -> @[i]],
                                    !.reading_msg = TRUE,
                                    !.rx_stream.stored = 0]
                  ELSE [read EXCEPT !.msg_start = shifted, !.byte_count = counted]
        ELSE IF s.byte_count < PACKET_LENGTH
             THEN LET stored == [read EXCEPT !.rx_packet[s.byte_count] = b,
                                             !.byte_count = counted,
                                             !.rx_stream.stored = @ + 1]
                  IN  IF counted = PACKET_LENGTH
                      THEN decode_packet([stored EXCEPT !.reading_msg = FALSE,
                                                        !.byte_count = 0], f)
                      ELSE stored
             ELSE LET past == [read EXCEPT !.rx_stream.stored = @ + 1,
                                           !.rx_stream.outside = @ + 1]
                  IN  CASE o = "reading_msg" ->
                             [past EXCEPT !.reading_msg = FALSE, !.byte_count = counted]
                        [] o = "byte_count" -> [past EXCEPT !.byte_count = 1]
                        [] OTHER -> [past EXCEPT !.byte_count = counted]

\* the scheduler runs what is due before the components' loop()
NothingDue == Due(timers, now) = {}

\* loop(): a pending packet first, and nothing else while it cannot be sent; then
\* obstruction_loop unless obstruction is read from STATUS; then gdo_state_loop, which
\* decodes the frame f it has completed, if any
LoopThen(f, cells) ==
    LET blocked == transmit_pending_ /\ ~ transmit_packet_ok(St)
        a == IF transmit_pending_ THEN transmit_packet(St) ELSE St
        b == IF ~ a.obstruction_from_status_ THEN obstruction_loop(a) ELSE a
        c == IF f = NoFrame THEN b ELSE decode_packet(b, f)
        ret == IF f = NoFrame THEN "NONE" ELSE decode_packet_ret(b, f)
    IN  /\ NothingDue
        /\ blocked => f = NoFrame
        /\ f # NoFrame => rx_budget > 0
        /\ Commit(Observed([(IF blocked THEN a ELSE c)
                     EXCEPT !.event = Ev("loop", f, ret, 0, NoData, transmit_pending_),
                            !.rx_budget = IF f = NoFrame THEN @ ELSE @ - 1], cells))

Loop(f) == LoopThen(f, {})

\* loop() with one byte (b) in the serial buffer
LoopByte(b, f, o) ==
    LET blocked == transmit_pending_ /\ ~ transmit_packet_ok(St)
        a == IF transmit_pending_ THEN transmit_packet(St) ELSE St
        c == IF ~ a.obstruction_from_status_ THEN obstruction_loop(a) ELSE a
        ret == IF f = NoFrame THEN "NONE" ELSE decode_packet_ret(c, f)
    IN  /\ NothingDue
        /\ ~ blocked
        /\ f # NoFrame <=> Completes(St)
        /\ f # NoFrame => rx_budget > 0
        /\ Commit([gdo_state_loop(c, b, f, o)
                     EXCEPT !.event = Ev("loop", f, ret, b, NoData, transmit_pending_),
                            !.rx_budget = IF f = NoFrame THEN @ ELSE @ - 1])

\* the backoff of query_status is 1.5; a retry without one keeps its wait
Backoff(t) == IF t.fn = "query_status" THEN (t.wait * 3) \div 2 ELSE t.wait

\* the state a due timeout's closure leaves
RunTimeout(s, t) ==
    CASE t.fn = "sync" -> sync(s)
      [] t.fn = "get_ext_status" ->
            send_command(s, "GET_EXT_STATUS", Data("GET_EXT_STATUS", {}), TRUE)
      [] t.fn = "ttc_get_duration" ->
            send_command(s, "TTC_GET_DURATION", Data("TTC_GET_DURATION", {}), TRUE)
      [] t.fn = "get_openings" -> send_command(s, "GET_OPENINGS", NoData, TRUE)
      [] t.fn = "release" -> door_command_release(s, t.data)
      [] t.fn = "door_status_update" -> send_command(s, "GET_STATUS", NoData, TRUE)
      [] t.fn = "move_to_position" -> door_command(s, "DOOR_STOP")
      [] t.fn = "restore_ttc" ->
            IF s.ttc_time_seconds = 0 THEN turn_ttc_off(s)
            ELSE set_ttc_sec(s, s.ttc_time_seconds)
      [] OTHER -> s

\* the state a due retry's closure leaves, and what it returns, with r attempts left
RunRetry(s, t, r) ==
    CASE t.fn = "query_status" -> query_status_retry(s, r)
      [] t.fn = "door_position_update" -> door_position_update(s)
      [] OTHER -> s

RunRetryRet(s, t, r) ==
    IF t.fn = "query_status" THEN query_status_retry_ret(s, r) ELSE "RETRY"

\* the scheduler runs the earliest due item t; a retry is called with --retry_countdown
\* and is scheduled again unless it returned DONE or the countdown reached 0
FireTimer(t) ==
    LET s == [St EXCEPT !.timers = @ (-) SetToBag({t})]
        r == (t.left - 1) % Uint8Modulus
        ret == RunRetryRet(s, t, r)
        a == IF t.kind = "retry" THEN RunRetry(s, t, r) ELSE RunTimeout(s, t)
        b == IF t.kind = "retry" /\ ret = "RETRY" /\ r > 0
             THEN [a EXCEPT !.timers = @ (+) SetToBag({Timer("retry", t.name, t.fn,
                                              s.now + t.wait, t.data, r, Backoff(t))})]
             ELSE a
    IN  /\ t \in Due(timers, now)
        /\ \A x \in Due(timers, now) : t.due <= x.due
        /\ Commit([b EXCEPT !.event = Ev(t.fn, NoFrame, IF t.kind = "retry" THEN ret ELSE "NONE",
                                         r, t.data, transmit_pending_)])

\* time passes: by step, or to the next item's due time when that comes first
Advance(step, horizon) ==
    /\ NothingDue
    /\ \E d \in {step} \cup {x.due - now : x \in DOMAIN timers} :
         /\ d > 0
         /\ now + d <= horizon
         /\ \A x \in DOMAIN timers : now + d <= x.due
         /\ Commit([St EXCEPT !.now = now + d,
                              !.event = Ev("advance", NoFrame, "NONE", d, NoData, transmit_pending_)])

\* another transmitter starts or stops driving the line
LineChange ==
    Commit([St EXCEPT !.input_gdo_pin = ~ @,
                      !.event = Ev("line", NoFrame, "NONE", 0, NoData, transmit_pending_)])

\* the interrupt of the obstruction sense line: the line changes level
IsrObstruction ==
    Commit([isr_obstruction(St, ~ input_obst_pin)
              EXCEPT !.event = Ev("isr_obstruction", NoFrame, "NONE",
                                  IF input_obst_pin THEN 1 ELSE 0, NoData, transmit_pending_)])

\* a command of the host: op names it, r is the state it leaves
HostThen(op, arg, r, cells) ==
    /\ budget > 0
    /\ Commit(Observed([r EXCEPT !.budget = @ - 1,
                                 !.event = Ev(op, NoFrame, "NONE", arg, NoData, transmit_pending_)],
                       cells))

Host(op, arg, r) == HostThen(op, arg, r, {})

OpenDoor == Host("open_door", 0, open_door(St))
CloseDoor == Host("close_door", 0, close_door(St))
StopDoor == Host("stop_door", 0, stop_door(St))
ToggleDoor == Host("toggle_door", 0, toggle_door(St))
DoorMoveToPosition(p) == Host("door_move_to_position", p, door_move_to_position(St, p))
LightOn == Host("light_on", 0, light_on(St))
LightOff == Host("light_off", 0, light_off(St))
QueryStatus == Host("query_status", 0, query_status(St))

-----------------------------------------------------------------------------
(* The state after construction and setup(): the members' initial values of ratgdo.h, *)
(* the rolling code counter and the durations as the host restored them, and the      *)
(* timeout of setup() pending.  setup() runs at millis() = 1.                         *)

InitWith(counter, opening, closing, from_status, cmds, frames) ==
    /\ now = 1
    /\ input_gdo_pin = FALSE
    /\ door_state = "UNKNOWN"
    /\ door_position = DOOR_POSITION_UNKNOWN
    /\ opening_duration = opening
    /\ closing_duration = closing
    /\ start_opening = -1
    /\ start_closing = -1
    /\ door_start_moving = 0
    /\ door_start_position = DOOR_POSITION_UNKNOWN
    /\ door_move_delta = DOOR_DELTA_UNKNOWN
    /\ moving_to_position = FALSE
    /\ light_state = "UNKNOWN"
    /\ lock_state = "UNKNOWN"
    /\ hold_state = "UNKNOWN"
    /\ motor_state = "UNKNOWN"
    /\ motion_state = "UNKNOWN"
    /\ button_state = "UNKNOWN"
    /\ obstruction_state = "UNKNOWN"
    /\ obstruction_from_status_ = from_status
    /\ obstruction_low_count = 0
    /\ input_obst_pin = FALSE
    /\ last_millis = 0
    /\ last_asleep = 0
    /\ openings = 0
    /\ ttc_time_seconds = 0
    /\ restore_ttc_ = FALSE
    /\ restore_hold_state_ = FALSE
    /\ query_status_flags_ = {}
    /\ sync_failed = FALSE
    /\ rolling_code_counter = counter
    /\ tx_packet_ = NoPacket
    /\ transmit_pending_ = FALSE
    /\ timers = SetToBag({Timer("timeout", "", "sync", 1 + SYNC_DELAY, NoData, 0, 0)})
    /\ wire = << >>
    /\ event = NoEvent
    /\ budget = cmds
    /\ rx_budget = frames
    /\ obstruction_pc = "idle"
    /\ tally = [pulses |-> 0, read |-> 0]
    /\ reading_msg = FALSE
    /\ msg_start = 0
    /\ byte_count = 0
    /\ rx_packet = [i \in 0..(PACKET_LENGTH - 1) |-> 0]
    /\ rx_stream = [consumed |-> 0, stored |-> 0, outside |-> 0]

-----------------------------------------------------------------------------
(* The dispatcher alone: frames of every command, from this remote (echoes) and *)
(* from another, with payloads that reach each branch of decode_packet.          *)

\* the payloads (nibble, byte1, byte2) tried with each command
Payloads(cmd) ==
    CASE cmd = "STATUS" -> {<<1, 0, 0>>, <<2, 64, 3>>, <<4, 0, 2>>}
      [] cmd \in {"LIGHT", "LOCK"} -> {<<0, 0, 0>>, <<1, 0, 0>>, <<2, 0, 0>>}
      [] cmd = "DOOR_ACTION" -> {<<0, 0, 0>>, <<0, 1, 0>>}
      [] cmd = "OPENINGS" -> {<<0, 0, 5>>, <<1, 1, 2>>, <<0, 0, 0>>}
      [] cmd = "TTC_DURATION" -> {<<0, 0, 60>>, <<0, 0, 1>>, <<0, 0, 7>>, <<0, 1, 44>>}
      [] cmd = "EXT_STATUS" -> {<<0, 9, 0>>, <<0, 10, 0>>, <<0, 12, 0>>}
      [] OTHER -> {<<0, 5, 0>>}

Commands == {"STATUS", "LIGHT", "LOCK", "MOTOR_ON", "DOOR_ACTION", "OPENINGS", "MOTION",
             "TTC_SET_DURATION", "TTC_DURATION", "TTC_COUNTDOWN", "TTC_CANCEL",
             "EXT_STATUS", "PING"}

FramesOf(ids, cmds) ==
    UNION {{Frame(id, cmd, p[1], p[2], p[3]) : id \in ids, p \in Payloads(cmd)} : cmd \in cmds}

DispatchFrames == FramesOf({REMOTE_ID, OTHER_ID}, Commands)

InitDispatch == InitWith(0, 0, 0, TRUE, 0, MaxDispatchFrames)

NextDispatch ==
    \/ \E f \in DispatchFrames \cup {NoFrame} : Loop(f)
    \/ \E t \in DOMAIN timers : FireTimer(t)
    \/ LineChange

SpecDispatch == InitDispatch /\ [][NextDispatch]_vars

\* the state cells decode_packet may write
Cells ==
    << door_state, door_position, light_state, lock_state, hold_state, motor_state,
       motion_state, button_state, obstruction_state, openings, ttc_time_seconds,
       opening_duration, closing_duration, start_opening, start_closing,
       query_status_flags_, sync_failed, door_start_moving, door_start_position,
       door_move_delta, moving_to_position, restore_ttc_, restore_hold_state_ >>

\* the step is a loop() whose gdo_state_loop decoded a frame
Decoded == event'.op = "loop" /\ event'.frame # NoFrame

\* C1: a frame whose fixed id is this remote's makes decode_packet return UNKNOWN and
\* change no state cell, schedule nothing and encode no command: all that loop() may
\* have done in that step is to write the packet that was pending before it.
C1_SelfEchoSuppressed ==
    [][(Decoded /\ event'.frame.fixed_id = REMOTE_ID) =>
          /\ event'.ret = "UNKNOWN"
          /\ UNCHANGED Cells
          /\ UNCHANGED << timers, tx_packet_, rolling_code_counter >>
          /\ \/ wire' = wire
             \/ transmit_pending_ /\ wire' = Append(wire, tx_packet_)]_vars

\* an echo of LIGHT toggle was decoded while the light was ON (and it still is)
C1_Witness ==
    /\ event.op = "loop"
    /\ event.frame = Frame(REMOTE_ID, "LIGHT", 2, 0, 0)
    /\ light_state = "ON"

\* C2: a frame OPENINGS of another remote leaves openings unchanged when openings is 0
\* and the nibble is not 0, and sets it to (byte1 << 8) | byte2 otherwise.
C2_OpeningsGuard ==
    [][(Decoded /\ event'.frame.fixed_id # REMOTE_ID /\ event'.frame.cmd = "OPENINGS") =>
          openings' = IF openings = 0 /\ event'.frame.nibble # 0
                      THEN openings
                      ELSE event'.frame.byte1 * 256 + event'.frame.byte2]_vars

\* openings was known (5) and a frame that answers no request of ours updated it to 258
C2_Witness ==
    /\ event.op = "loop"
    /\ event.frame = Frame(OTHER_ID, "OPENINGS", 1, 1, 2)
    /\ openings = 258

-----------------------------------------------------------------------------------------------------------------------------------------------------
(* The door: STATUS frames of the opener reporting each door state, time passing *)
(* while the door moves, and requests of the host to move to a position.  The    *)
(* durations are both unknown (0), or both as the host restored them.            *)

\* STATUS frames received while the door is watched, and requests to move
MaxDoorFrames == 3
MaxDoorMoves == 1
\* the door is watched for this many update periods
MaxDoorSteps == 2

DoorHorizon == 1 + MaxDoorSteps * UPDATE_PERIOD

RestoredDuration == 4 * UPDATE_PERIOD

StatusFrame(nibble) == Frame(OTHER_ID, "STATUS", nibble, 0, 0)

DoorFrames == {StatusFrame(n) : n \in 1..5}

DoorTargets == {PosOne \div 5, (4 * PosOne) \div 5}

InitDoor ==
    \E d \in {0, RestoredDuration} : InitWith(0, d, d, TRUE, MaxDoorMoves, MaxDoorFrames)

NextDoor ==
    \/ \E f \in DoorFrames : Loop(f)
    \/ \E t \in DOMAIN timers : FireTimer(t)
    \/ Advance(UPDATE_PERIOD, DoorHorizon)
    \/ \E p \in DoorTargets : DoorMoveToPosition(p)

SpecDoor == InitDoor /\ [][NextDoor]_vars

\* the step is a loop() that decoded a STATUS frame of the opener reporting door state d
DecodedStatus(d) ==
    /\ Decoded
    /\ event'.frame.fixed_id # REMOTE_ID
    /\ event'.frame.cmd = "STATUS"
    /\ to_DoorState(event'.frame.nibble) = d

\* C3: right after a STATUS frame of the opener reporting OPEN is processed the door
\* position is exactly 1.0, and after one reporting CLOSED exactly 0.0, whatever the
\* position, the movement session and the pending timers were.
C3_TerminalSnap ==
    [][/\ DecodedStatus("OPEN") => door_state' = "OPEN" /\ door_position' = PosOne
       /\ DecodedStatus("CLOSED") => door_state' = "CLOSED" /\ door_position' = 0]_vars

\* CLOSED was reported while the door was closing from open, the estimate part-way
C3_Witness ==
    /\ event.op = "loop"
    /\ event.frame = StatusFrame(2)
    /\ event.was_state = "CLOSING"
    /\ event.was_position > 0
    /\ event.was_position < PosOne
    /\ door_position = 0

\* C4: while the door state stays OPENING the door position never decreases and stays
\* within [start position, 1.0]; while it stays CLOSING the position never increases
\* and stays within [0.0, start position].
C4_PositionMonotone ==
    [][/\ (door_state = "OPENING" /\ door_state' = "OPENING") =>
             /\ door_position' >= door_position
             /\ door_position' >= door_start_position'
             /\ door_position' <= PosOne
       /\ (door_state = "CLOSING" /\ door_state' = "CLOSING") =>
             /\ door_position' <= door_position
             /\ door_position' <= door_start_position'
             /\ door_position' >= 0 \/ door_position' = DOOR_POSITION_UNKNOWN]_vars

-----------------------------------------------------------------------------
(* Calibration: a door whose durations are unknown is seen to travel between *)
(* closed and open, more than once.                                           *)

MaxTravelFrames == 5
MaxTravelSteps == 2

TravelHorizon == 1 + MaxTravelSteps * UPDATE_PERIOD

\* CLOSED, OPENING, OPEN and CLOSING
TravelFrames == {StatusFrame(n) : n \in {2, 4, 1, 5}}

InitTravel == InitWith(0, 0, 0, TRUE, 0, MaxTravelFrames)

NextTravel ==
    \/ \E f \in TravelFrames : Loop(f)
    \/ \E t \in DOMAIN timers : FireTimer(t)
    \/ Advance(UPDATE_PERIOD, TravelHorizon)

SpecTravel == InitTravel /\ [][NextTravel]_vars

\* C5: once opening_duration is not 0 no step changes it, and once closing_duration
\* is not 0 no step changes it: a duration is calibrated once.
C5_CalibratedOnce ==
    [][/\ opening_duration # 0 => opening_duration' = opening_duration
       /\ closing_duration # 0 => closing_duration' = closing_duration]_vars

\* the door was seen to open from closed, which calibrated opening_duration, and is
\* now seen to reach open again after a time that measures differently
C5_Witness ==
    /\ event.op = "loop"
    /\ event.frame = StatusFrame(1)
    /\ event.was_state = "OPENING"
    /\ start_opening > 0
    /\ opening_duration # 0
    /\ RoundTenth(now - start_opening) # opening_duration

-----------------------------------------------------------------------------
(* Synchronisation: sync() runs SYNC_DELAY after setup() and the opener answers *)
(* some, all or none of the four requests, in any order, at any time.  The line *)
(* is idle.  Time passes from one pending item to the next.                      *)

MaxSyncFrames == 5

SyncHorizon == 60 * SYNC_DELAY

\* the four answers, and an OPENINGS frame that answers no request of ours
SyncFrames ==
    {Frame(OTHER_ID, "STATUS", 1, 0, 0), Frame(OTHER_ID, "EXT_STATUS", 0, 10, 0),
     Frame(OTHER_ID, "TTC_DURATION", 0, 0, 60), Frame(OTHER_ID, "OPENINGS", 0, 0, 5),
     Frame(OTHER_ID, "OPENINGS", 1, 0, 5)}

InitSync == InitWith(0, 0, 0, TRUE, 0, MaxSyncFrames)

NextSync ==
    \/ \E f \in SyncFrames : Loop(f)
    \/ \E t \in DOMAIN timers : FireTimer(t)
    \/ Advance(0, SyncHorizon)

SpecSync == InitSync /\ [][NextSync]_vars

\* the step is an attempt of the retry loop of query_status
Attempt == event'.op = "query_status" /\ event'.ret # "NONE"

\* a retry of query_status is pending in T
QueryPending(T) == \E x \in DOMAIN T : x.kind = "retry" /\ x.fn = "query_status"

\* how many packets of command cmd were written to the line
Sent(w, cmd) == Cardinality({i \in DOMAIN w : w[i].cmd = cmd})

\* C6: once the answers have set all four flags and sync_failed is not raised, the
\* flags stay set, the next attempt of the retry loop returns DONE, sends nothing and
\* is not scheduled again, and no step raises sync_failed.
C6_SyncSuccess ==
    [][(query_status_flags_ = QSF_ALL /\ ~ sync_failed /\ event'.op # "sync") =>
          /\ query_status_flags_' = QSF_ALL
          /\ ~ sync_failed'
          /\ Attempt => /\ event'.ret = "DONE"
                        /\ wire' = wire
                        /\ ~ QueryPending(timers')]_vars

\* the third attempt found all four flags set and ended the loop
C6_Witness ==
    /\ event.op = "query_status"
    /\ event.ret = "DONE"
    /\ event.arg = QueryRetryAttempts - 3
    /\ query_status_flags_ = QSF_ALL
    /\ ~ sync_failed
    /\ ~ QueryPending(timers)

\* a timeout running fn is pending in T, due at time due
TimeoutPending(T, fn, due) ==
    \E x \in DOMAIN T : x.kind = "timeout" /\ x.fn = fn /\ x.due = due

\* the step wrote to the line the packet of command cmd with payload data, keyed by
\* the rolling code counter
Wrote(cmd, data) == wire' = Append(wire, Packet(rolling_code_counter, REMOTE_ID, cmd, data))

\* C7: an attempt of the retry loop that finds an answer missing sends GET_STATUS and
\* schedules GET_EXT_STATUS, TTC_GET_DURATION and GET_OPENINGS 150, 300 and 450 ms
\* later, each of which is sent when due; the attempt is scheduled again unless it was
\* the last one (r = 0), which raises sync_failed.  sync_failed is raised by no other
\* step, so only when the tenth GET_STATUS has been sent, and no attempt follows it.
C7_SyncFailure ==
    [][/\ (Attempt /\ query_status_flags_ # QSF_ALL) =>
             /\ event'.ret = "RETRY"
             /\ Wrote("GET_STATUS", NoData)
             /\ TimeoutPending(timers', "get_ext_status", now + QueryExtStatusDelay)
             /\ TimeoutPending(timers', "ttc_get_duration", now + QueryTtcDelay)
             /\ TimeoutPending(timers', "get_openings", now + QueryOpeningsDelay)
             /\ QueryPending(timers') <=> event'.arg > 0
             /\ sync_failed' <=> event'.arg = 0
       /\ event'.op = "get_ext_status" => Wrote("GET_EXT_STATUS", Data("GET_EXT_STATUS", {}))
       /\ event'.op = "ttc_get_duration" => Wrote("TTC_GET_DURATION", Data("TTC_GET_DURATION", {}))
       /\ event'.op = "get_openings" => Wrote("GET_OPENINGS", NoData)
       /\ sync_failed' # sync_failed =>
             /\ Attempt
             /\ event'.arg = 0
             /\ sync_failed'
             /\ Sent(wire', "GET_STATUS") = QueryRetryAttempts
       /\ sync_failed => ~ Attempt /\ ~ QueryPending(timers)]_vars

\* no answer came: sync_failed is raised, ten of each request were sent, nothing is
\* pending any more
C7_Witness ==
    /\ sync_failed
    /\ rx_budget = MaxSyncFrames
    /\ query_status_flags_ = {}
    /\ timers = EmptyBag
    /\ \A cmd \in {"GET_STATUS", "GET_EXT_STATUS", "TTC_GET_DURATION", "GET_OPENINGS"} :
          Sent(wire, cmd) = QueryRetryAttempts

-----------------------------------------------------------------------------
(* The transmit coordinator: the host sends door and light commands while another *)
(* transmitter drives the line or leaves it idle, the opener reports the door     *)
(* closed or opening, and loop() runs.  The run ends before sync() is due.        *)

MaxTxCommands == 1
MaxTxFrames == 1

TxHorizon == 1 + 2 * ReleaseDelay

\* CLOSED, which makes decode_packet send GET_OPENINGS, and OPENING
TxFrames == {StatusFrame(2), StatusFrame(4)}

InitTx == InitWith(0, 0, 0, TRUE, MaxTxCommands, MaxTxFrames)

NextTx ==
    \/ \E f \in TxFrames \cup {NoFrame} : Loop(f)
    \/ \E t \in DOMAIN timers : FireTimer(t)
    \/ Advance(0, TxHorizon)
    \/ LineChange
    \/ OpenDoor
    \/ CloseDoor
    \/ StopDoor
    \/ ToggleDoor
    \/ LightOn
    \/ LightOff

SpecTx == InitTx /\ [][NextTx]_vars

\* the same with fewer kinds of command and frame: loop() is called again and again,
\* and the scheduler runs what is due
NextLine ==
    \/ \E f \in {StatusFrame(2), NoFrame} : Loop(f)
    \/ \E t \in DOMAIN timers : FireTimer(t)
    \/ Advance(0, TxHorizon)
    \/ LineChange
    \/ OpenDoor
    \/ LightOn

SpecLine ==
    /\ InitTx
    /\ [][NextLine]_vars
    /\ WF_vars(Loop(NoFrame))
    /\ WF_vars(\E t \in DOMAIN timers : FireTimer(t))

\* C8: a command of the host or a timer that runs while a packet is pending leaves
\* tx_packet_ and the rolling code counter as they were; the only frame it can write
\* is the pending packet.
C8_SingleSlot ==
    [][(transmit_pending_ /\ event'.op # "loop") =>
          /\ tx_packet_' = tx_packet_
          /\ rolling_code_counter' = rolling_code_counter
          /\ \/ wire' = wire /\ transmit_pending_'
             \/ wire' = Append(wire, tx_packet_) /\ ~ transmit_pending_']_vars

\* the GET_OPENINGS that follows CLOSED found the line busy; light_off was called with
\* the line idle again: it was dropped, and what was written is the GET_OPENINGS packet
C8_Witness ==
    /\ event.op = "light_off"
    /\ event.pending
    /\ ~ transmit_pending_
    /\ wire = << Packet(0, REMOTE_ID, "GET_OPENINGS", NoData) >>
    /\ tx_packet_ = Packet(0, REMOTE_ID, "GET_OPENINGS", NoData)
    /\ rolling_code_counter = 1

\* everything but event
Members ==
    << Cells, now, input_gdo_pin, input_obst_pin, obstruction_from_status_,
       obstruction_low_count, last_millis, last_asleep, rolling_code_counter, tx_packet_,
       transmit_pending_, timers, wire, budget, rx_budget >>

\* C9: no step writes a frame while the line is read active, and a send then leaves
\* the packet pending; a loop() that finds a packet pending and the line active does
\* nothing else, and one that finds the line idle writes the pending packet before
\* anything else; if the line stays idle from some time on, a pending packet is
\* transmitted and transmit_pending_ cleared.
C9_CollisionAvoidance ==
    /\ [][/\ input_gdo_pin => wire' = wire
          /\ (input_gdo_pin /\ event'.op \in {"light_on", "light_off"}) => transmit_pending_'
          /\ (input_gdo_pin /\ transmit_pending_) => transmit_pending_'
          /\ (event'.op = "loop" /\ transmit_pending_ /\ input_gdo_pin) => UNCHANGED Members
          /\ (event'.op = "loop" /\ transmit_pending_ /\ ~ input_gdo_pin) =>
                /\ Len(wire') > Len(wire)
                /\ SubSeq(wire', 1, Len(wire) + 1) = Append(wire, tx_packet_)
                /\ transmit_pending_' => Len(wire') = Len(wire) + 1]_vars
    /\ (<>[](~ input_gdo_pin)) => (transmit_pending_ ~> ~ transmit_pending_)

\* a loop() found the packet that light_on had left pending and the line idle, and
\* wrote it
C9_Witness ==
    /\ event.op = "loop"
    /\ event.pending
    /\ ~ transmit_pending_
    /\ ~ input_gdo_pin
    /\ wire = << Packet(0, REMOTE_ID, "LIGHT", Data("LIGHT_ON", {})) >>

\* packet p is the press of a door command, and r its release
IsPress(p) == p.cmd = "DOOR_ACTION" /\ p.data.bits = {16, 8}

IsReleaseOf(r, p) ==
    /\ r.cmd = "DOOR_ACTION"
    /\ r.data = Data(p.data.base, p.data.bits \ {8})

\* C10: a DOOR_ACTION release is written to the line only after the press of the same
\* door command: the same payload with the press bit (bit 8) set.
C10_ReleaseAfterPress ==
    \A i \in DOMAIN wire :
        (wire[i].cmd = "DOOR_ACTION" /\ 8 \notin wire[i].data.bits) =>
            \E j \in 1..(i - 1) : IsPress(wire[j]) /\ IsReleaseOf(wire[i], wire[j])

-----------------------------------------------------------------------------
(* The rolling code counter: restored by the host at 0 or just below 2^28, then *)
(* commands of the host with the line busy or idle, and sync().                  *)

\* the run ends when the first GET_EXT_STATUS of the synchronisation has been sent
CounterHorizon == 1 + SYNC_DELAY + QueryExtStatusDelay

RestoredCounters == {0, CounterModulus - 1, CounterModulus - 5}

InitCounter ==
    \E c \in RestoredCounters : InitWith(c, 0, 0, TRUE, MaxTxCommands, 0)

NextCounter ==
    \/ Loop(NoFrame)
    \/ \E t \in DOMAIN timers : FireTimer(t)
    \/ Advance(0, CounterHorizon)
    \/ LineChange
    \/ OpenDoor
    \/ LightOn

SpecCounter == InitCounter /\ [][NextCounter]_vars

\* the step ran a handler that sends one command with the increment requested
SendsIncrementing ==
    \/ event'.op \in {"light_on", "light_off", "release", "get_ext_status",
                      "ttc_get_duration", "get_openings", "door_status_update"}
    \/ Attempt /\ event'.ret = "RETRY"

\* the step ran a handler that sends one command with the increment not requested
SendsPlain == event'.op \in {"open_door", "close_door", "stop_door", "toggle_door"}

\* C11: the counter stays within 0 .. 2^28 - 1; a command encoded with the increment
\* requested is keyed by the counter and advances it by 1 modulo 2^28; a command
\* encoded without it, and a command dropped because a packet is pending, leave the
\* counter as it was; sync() advances it by 10 modulo 2^28 and sends nothing, the
\* queries being left to the retry it schedules.
C11_CounterArithmetic ==
    [][/\ rolling_code_counter' \in 0..(CounterModulus - 1)
       /\ (SendsIncrementing /\ ~ transmit_pending_) =>
             /\ tx_packet_'.rolling = rolling_code_counter
             /\ rolling_code_counter' = (rolling_code_counter + 1) % CounterModulus
       /\ (SendsPlain /\ ~ transmit_pending_) =>
             /\ tx_packet_'.rolling = rolling_code_counter
             /\ rolling_code_counter' = rolling_code_counter
       /\ ((SendsIncrementing \/ SendsPlain) /\ transmit_pending_) =>
             rolling_code_counter' = rolling_code_counter
       /\ event'.op = "sync" =>
             /\ rolling_code_counter' =
                   (rolling_code_counter + MAX_CODES_WITHOUT_FLASH_WRITE) % CounterModulus
             /\ wire' = wire
             /\ QueryPending(timers')
       /\ event'.op \in {"loop", "advance", "line"} =>
             rolling_code_counter' = rolling_code_counter]_vars

\* the counter was restored just below 2^28, sync() wrapped it and the first
\* GET_STATUS was then keyed by the wrapped counter
C11_Witness ==
    /\ event.op = "query_status"
    /\ event.ret = "RETRY"
    /\ ~ event.pending
    /\ tx_packet_.cmd = "GET_STATUS"
    /\ tx_packet_.rolling < MAX_CODES_WITHOUT_FLASH_WRITE
    /\ rolling_code_counter = tx_packet_.rolling + 1

-----------------------------------------------------------------------------
(* Moving to a position: the host asks for a position, the opener reports door *)
(* states, and the release, the stop and the updates run when due.  Each       *)
(* duration is unknown or as the host restored it.  The run ends before sync() *)
(* is due.                                                                     *)

MaxMoveFrames == 2
MaxMoves == 1

MoveHorizon == SYNC_DELAY

MoveTargets == {PosOne \div 5, PosOne \div 2, (4 * PosOne) \div 5}

InitMove ==
    \E opening \in {0, RestoredDuration}, closing \in {0, RestoredDuration} :
        InitWith(0, opening, closing, TRUE, MaxMoves, MaxMoveFrames)

NextMove ==
    \/ \E f \in DoorFrames : Loop(f)
    \/ \E t \in DOMAIN timers : FireTimer(t)
    \/ Advance(0, MoveHorizon)
    \/ \E p \in MoveTargets : DoorMoveToPosition(p)

SpecMove == InitMove /\ [][NextMove]_vars

\* the step is a request to move to a position
Requested == event'.op = "door_move_to_position"

\* the request must be rejected: the door is moving, or is at the target, or the
\* duration of the direction is unknown
Rejected(target) ==
    \/ door_state \in {"OPENING", "CLOSING"}
    \/ target = door_position
    \/ target > door_position /\ opening_duration = 0
    \/ target < door_position /\ closing_duration = 0

\* what a request may change: everything but the clock, the line and the budgets
Effects ==
    << Cells, timers, wire, tx_packet_, transmit_pending_, rolling_code_counter >>

\* C12: door_move_to_position changes nothing (no command sent, no timer scheduled,
\* delta and position as they were) when the door state is OPENING or CLOSING, or
\* the target is the current position, or the duration of the direction is 0.
C12_MoveRejected ==
    [][(Requested /\ Rejected(event'.arg)) => UNCHANGED Effects]_vars

\* a request to open further was rejected because opening_duration is unknown,
\* closing_duration and the position being known
C12_Witness ==
    /\ event.op = "door_move_to_position"
    /\ door_state = "STOPPED"
    /\ door_position = PosOne \div 2
    /\ event.arg > door_position
    /\ opening_duration = 0
    /\ closing_duration # 0
    /\ wire = << >>
    /\ door_move_delta = DOOR_DELTA_UNKNOWN

\* the time the move takes: |target - position| * duration
OperationTime(target) ==
    IF target > door_position
    THEN ((target - door_position) * opening_duration) \div PosOne
    ELSE ((door_position - target) * closing_duration) \div PosOne

\* C13: an accepted door_move_to_position sends the press of DOOR_OPEN when the target
\* is above the position and of DOOR_CLOSE otherwise, and schedules the stop after
\* |target - position| * duration; when the stop runs the door position is the target.
C13_MoveCompletes ==
    [][/\ (Requested /\ ~ Rejected(event'.arg)) =>
             /\ Wrote("DOOR_ACTION",
                      Data(IF event'.arg > door_position THEN "DOOR_OPEN" ELSE "DOOR_CLOSE",
                           {16, 8}))
             /\ TimeoutPending(timers', "move_to_position", now + OperationTime(event'.arg))
       /\ event'.op = "move_to_position" => event'.data = Target(door_position')]_vars

-----------------------------------------------------------------------------
(* More of the dispatcher, under SpecDispatch. *)

\* the step is a loop() that decoded a frame of command cmd from another remote
DecodedFrom(cmd) ==
    /\ Decoded
    /\ event'.frame.fixed_id # REMOTE_ID
    /\ event'.frame.cmd = cmd

\* the value a TTC_DURATION frame carries
Seconds(f) == f.byte1 * 256 + f.byte2

TtcAllowList == {0, 60, 300, 600}

\* C14: a TTC_DURATION frame of the opener carrying s leaves ttc_time_seconds equal to
\* s when s is 0, 60, 300 or 600, unchanged when s is 1, and 0 for every other s.
C14_TtcAllowList ==
    [][DecodedFrom("TTC_DURATION") =>
          ttc_time_seconds' =
              IF Seconds(event'.frame) \in TtcAllowList THEN Seconds(event'.frame)
              ELSE IF Seconds(event'.frame) = 1 THEN ttc_time_seconds
              ELSE 0]_vars

\* as first stated: s when s is 0, 60, 300 or 600, and 0 for every other s
C14_Original ==
    [][DecodedFrom("TTC_DURATION") =>
          ttc_time_seconds' =
              IF Seconds(event'.frame) \in TtcAllowList THEN Seconds(event'.frame) ELSE 0]_vars

\* the duration was 60 and a frame carrying 1 left it so
C14_Witness ==
    /\ event.op = "loop"
    /\ event.frame = Frame(OTHER_ID, "TTC_DURATION", 0, 0, 1)
    /\ ttc_time_seconds = 60

\* C15: a LIGHT frame of the opener with nibble 0, 1, 2 sets light_state to OFF, ON,
\* its toggle, and a LOCK frame with nibble 0, 1, 2 sets lock_state to UNLOCKED,
\* LOCKED, its toggle.
C15_LockMirrorsLight ==
    [][/\ DecodedFrom("LIGHT") =>
             light_state' = CASE event'.frame.nibble = 0 -> "OFF"
                              [] event'.frame.nibble = 1 -> "ON"
                              [] event'.frame.nibble = 2 -> light_state_toggle(light_state)
                              [] OTHER -> light_state
       /\ DecodedFrom("LOCK") =>
             lock_state' = CASE event'.frame.nibble = 0 -> "UNLOCKED"
                             [] event'.frame.nibble = 1 -> "LOCKED"
                             [] event'.frame.nibble = 2 -> lock_state_toggle(lock_state)
                             [] OTHER -> lock_state]_vars

-----------------------------------------------------------------------------
(* The component with a subscriber of light_state, all within one instant:    *)
(* LIGHT frames of the opener decoded in successive passes of loop(), and the *)
(* host switching the light, with the scheduler running what was deferred.    *)

MaxNotifyFrames == 3
MaxNotifyCommands == 2

NotifyFrames == {Frame(OTHER_ID, "LIGHT", n, 0, 0) : n \in 0..2}

InitNotify == InitWith(0, 0, 0, TRUE, MaxNotifyCommands, MaxNotifyFrames)

LoopSubscribed(f) == LoopThen(f, {"light_state"})
LightOnSubscribed == HostThen("light_on", 0, light_on(St), {"light_state"})
LightOffSubscribed == HostThen("light_off", 0, light_off(St), {"light_state"})

NextNotify ==
    \/ \E f \in NotifyFrames \cup {NoFrame} : LoopSubscribed(f)
    \/ \E t \in DOMAIN timers : FireTimer(t)
    \/ LightOnSubscribed
    \/ LightOffSubscribed

SpecNotify == InitNotify /\ [][NextNotify]_vars

\* the calls of the subscriber of light_state still deferred
Deferred(T) == {t \in DOMAIN T : t.fn = "notify_light_state"}

LightStates == {"OFF", "ON", "UNKNOWN"}

\* C16: a light_state changed several times before the scheduler runs what was
\* deferred has one call of its subscriber pending, carrying the final value; every
\* change leaves that call pending, and it runs before the next pass of loop(): of two
\* LIGHT TOGGLE frames, decoded in successive passes, the subscriber is told each.
C16_Coalesced ==
    /\ \A t \in Deferred(timers) : timers[t] = 1 /\ t.data = Data(light_state, {})
    /\ Cardinality(Deferred(timers)) <= 1
    /\ [][/\ light_state' # light_state => Deferred(timers') # {}
          /\ event'.op = "loop" => Deferred(timers) = {}
          /\ event'.op = "notify_light_state" =>
                event'.data = Data(light_state, {}) /\ light_state' = light_state]_vars

\* as first stated: of two LIGHT TOGGLE frames one after the other the subscriber is
\* told once, after the second
C16_Original ==
    \A i \in 1..(Len(event.log) - 2) :
        event.log[i] = "LIGHT_TOGGLE" /\ event.log[i + 2] = "LIGHT_TOGGLE"
            => event.log[i + 1] \notin LightStates

\* two LIGHT TOGGLE frames, and the subscriber told OFF after the first and ON after
\* the second
C16_Witness ==
    /\ event.log = << "LIGHT_TOGGLE", "OFF", "LIGHT_TOGGLE", "ON" >>
    /\ event.op = "notify_light_state"
    /\ light_state = "ON"

-----------------------------------------------------------------------------
(* Calibration again, under SpecTravel. *)

\* C17: opening_duration is set only when OPEN is reported while the door is OPENING
\* and OPENING was entered from CLOSED, and closing_duration only when CLOSED is
\* reported while the door is CLOSING and CLOSING was entered from OPEN: a traversal
\* that was interrupted, by a stop or by a reversal, records no duration.
C17_UninterruptedTraversal ==
    [][/\ opening_duration' # opening_duration =>
             DecodedStatus("OPEN") /\ door_state = "OPENING" /\ event.came_from = "CLOSED"
       /\ closing_duration' # closing_duration =>
             DecodedStatus("CLOSED") /\ door_state = "CLOSING" /\ event.came_from = "OPEN"]_vars

-----------------------------------------------------------------------------
(* Movement sessions, under SpecMove. *)

\* the stop of a move to a position is pending in T
StopPending(T) == \E t \in DOMAIN T : t.kind = "timeout" /\ t.name = "move_to_position"

\* C18: a STATUS frame of the opener reporting OPENING, decoded while no stop of a move
\* to a position is pending, leaves a session that starts at the door position and
\* whose delta is 1.0 less that position; one reporting CLOSING, a delta of 0.0 less
\* that position.
C18_SessionStart ==
    [][/\ DecodedStatus("OPENING") /\ ~ StopPending(timers) =>
             /\ door_start_position' = door_position'
             /\ door_move_delta' = PosOne - door_start_position'
       /\ DecodedStatus("CLOSING") /\ ~ StopPending(timers) =>
             /\ door_start_position' = door_position'
             /\ door_move_delta' = 0 - door_start_position']_vars

-----------------------------------------------------------------------------
(* The position when the door stops, under SpecDoor. *)

\* a movement session is running: its start, its start position and its delta are known
SessionActive ==
    /\ door_start_moving # 0
    /\ door_start_position # DOOR_POSITION_UNKNOWN
    /\ door_move_delta # DOOR_DELTA_UNKNOWN

\* the estimate of the running session at this instant, clamped to [0.0, 1.0]
SessionEstimate ==
    LET duration == IF door_move_delta > 0 THEN opening_duration ELSE closing_duration
        travel == IF duration = 0 THEN 2 * PosOne
                  ELSE ((now - door_start_moving) * PosOne) \div duration
        position == IF door_move_delta > 0 THEN door_start_position + travel
                    ELSE door_start_position - travel
    IN  IF position < 0 THEN 0 ELSE IF position > PosOne THEN PosOne ELSE position

-----------------------------------------------------------------------------
(* What stays scheduled when the door comes to rest, under SpecMove. *)

\* the items of T that belong to a movement: the position updates, the watchdog that
\* asks for the status, and the stop of a move to a position
MovementScheduling(T) ==
    {t \in DOMAIN T : \/ t.kind = "retry" /\ t.name = "position_sync_while_moving"
                      \/ t.kind = "timeout" /\ t.name = "door_status_update"
                      \/ t.kind = "timeout" /\ t.name = "move_to_position"}

\* C20: right after a STATUS frame of the opener reporting OPEN, CLOSED or STOPPED is
\* processed, no position update, no status watchdog and no stop of a move to a
\* position remains scheduled.
C20_TerminalCancels ==
    [][DecodedStatus("OPEN") \/ DecodedStatus("CLOSED") \/ DecodedStatus("STOPPED")
          => MovementScheduling(timers') = {}]_vars

-----------------------------------------------------------------------------
(* The watchdog of a movement: the door is seen to start moving and the opener *)
(* may say nothing more.  Durations are unknown or restored; the line may     *)
(* become busy; time passes from one pending item to the next.                 *)

MaxWatchFrames == 2
MaxWatchLineChanges == 1

WatchHorizon == 1 + RestoredDuration + 2 * SYNC_DELAY

\* OPEN, STOPPED, OPENING and CLOSING of the opener, and a frame that is no STATUS
WatchFrames == {StatusFrame(n) : n \in {1, 3, 4, 5}} \cup {Frame(OTHER_ID, "LIGHT", 1, 0, 0)}

InitWatch ==
    \E d \in {0, RestoredDuration} : InitWith(0, d, d, TRUE, MaxWatchLineChanges, MaxWatchFrames)

\* another transmitter starts or stops driving the line, MaxWatchLineChanges times at most
LineChangeBounded == Host("line", 0, [St EXCEPT !.input_gdo_pin = ~ @])

NextWatch ==
    \/ \E f \in WatchFrames \cup {NoFrame} : Loop(f)
    \/ \E t \in DOMAIN timers : FireTimer(t)
    \/ Advance(0, WatchHorizon)
    \/ LineChangeBounded

SpecWatch == InitWatch /\ [][NextWatch]_vars

\* the watchdogs pending in T
Watchdogs(T) == {t \in DOMAIN T : t.kind = "timeout" /\ t.fn = "door_status_update"}

-----------------------------------------------------------------------------
(* The obstruction classifier: obstruction is read from the sense line, whose   *)
(* edges interrupt at any time; loop() runs at any time and time passes in      *)
(* steps of half a check period.  Nothing is sent or received.                  *)

MaxPulses == 5
MaxObstSteps == 6

ObstStep == CHECK_PERIOD \div 2
ObstHorizon == 1 + MaxObstSteps * ObstStep

InitObst == InitWith(0, 0, 0, FALSE, 0, 0)

NextObst ==
    \/ Loop(NoFrame)
    \/ Advance(ObstStep, ObstHorizon)
    \/ obstruction_low_count < MaxPulses /\ IsrObstruction

SpecObst == InitObst /\ [][NextObst]_vars

\* the step is a loop() whose obstruction_loop finds the check period over
Tick ==
    /\ event'.op = "loop"
    /\ ~ obstruction_from_status_
    /\ ~ transmit_pending_
    /\ now - last_millis > CHECK_PERIOD

-----------------------------------------------------------------------------
(* The classifier over a longer time: the same, time passing in steps of a      *)
(* quarter of the period a line must have been awake.                           *)

MaxAsleepSteps == 5

AsleepStep == AsleepPeriod \div 4
AsleepHorizon == 1 + MaxAsleepSteps * AsleepStep

NextAsleep ==
    \/ Loop(NoFrame)
    \/ Advance(AsleepStep, AsleepHorizon)
    \/ obstruction_low_count < MaxPulses /\ IsrObstruction

SpecAsleep == InitObst /\ [][NextAsleep]_vars

\* C23: obstruction_state becomes OBSTRUCTED only at a tick that finds no pulse, the
\* line high, and more than 700 ms passed since the last tick that found no pulse and
\* the line low (since the start, when there was none); and every such tick leaves
\* it OBSTRUCTED.
C23_ObstructedAfterAwake ==
    [][/\ obstruction_state' = "OBSTRUCTED" /\ obstruction_state # "OBSTRUCTED" =>
             /\ Tick
             /\ obstruction_low_count = 0
             /\ input_obst_pin
             /\ now - last_asleep > AsleepPeriod
       /\ /\ Tick
          /\ obstruction_low_count = 0
          /\ input_obst_pin
          /\ now - last_asleep > AsleepPeriod
          => obstruction_state' = "OBSTRUCTED"]_vars

\* as first stated: only at a tick that finds no pulse, the line high, and no pulse
\* for more than 700 ms
C23_Original ==
    [][obstruction_state' = "OBSTRUCTED" /\ obstruction_state # "OBSTRUCTED" =>
          /\ Tick
          /\ obstruction_low_count = 0
          /\ input_obst_pin
          /\ now - event.last_pulse > AsleepPeriod]_vars

\* a line that was pulsing is reported OBSTRUCTED by the first tick without a pulse
C23_Witness ==
    /\ event.op = "loop"
    /\ last_millis = now
    /\ obstruction_state = "OBSTRUCTED"
    /\ obstruction_low_count = 0
    /\ input_obst_pin
    /\ event.last_pulse = now - AsleepStep
    /\ last_asleep = 0

-----------------------------------------------------------------------------
(* The interrupt against the classifier: a tick of obstruction_loop reads the   *)
(* count and classifies, and later writes 0; the interrupt of the sense line    *)
(* runs at any point, between the two as well.  Time passes between ticks.      *)

MaxIsrEdges == 6
MaxIsrSteps == 3

IsrStep == CHECK_PERIOD + 1
IsrHorizon == 1 + MaxIsrSteps * IsrStep

InitIsr == InitWith(0, 0, 0, FALSE, MaxIsrEdges, 0)

\* obstruction_loop finds the check period over, reads the count and classifies
ObstructionClassify ==
    /\ obstruction_pc = "idle"
    /\ ~ obstruction_from_status_
    /\ now - last_millis > CHECK_PERIOD
    /\ Commit([obstruction_classify(St)
                 EXCEPT !.obstruction_pc = "classified",
                        !.tally.read = @ + obstruction_low_count,
                        !.event = Ev("obstruction_loop", NoFrame, "NONE",
                                     obstruction_low_count, NoData, transmit_pending_)])

\* obstruction_loop ends the tick
ObstructionReset ==
    /\ obstruction_pc = "classified"
    /\ Commit([obstruction_reset(St)
                 EXCEPT !.obstruction_pc = "idle",
                        !.event = Ev("obstruction_reset", NoFrame, "NONE",
                                     obstruction_low_count, NoData, transmit_pending_)])

\* the interrupt, wherever obstruction_loop stands; an edge to low is a pulse
IsrEdge ==
    /\ budget > 0
    /\ Commit([isr_obstruction(St, ~ input_obst_pin)
                 EXCEPT !.budget = @ - 1,
                        !.tally.pulses = IF input_obst_pin THEN @ + 1 ELSE @,
                        !.event = Ev("isr_obstruction", NoFrame, "NONE",
                                     IF input_obst_pin THEN 1 ELSE 0, NoData,
                                     transmit_pending_)])

NextIsr ==
    \/ ObstructionClassify
    \/ ObstructionReset
    \/ IsrEdge
    \/ obstruction_pc = "idle" /\ Advance(IsrStep, IsrHorizon)

SpecIsr == InitIsr /\ [][NextIsr]_vars

\* C24: between ticks every pulse the interrupt counted has been read by one tick or
\* is still in the count: the reset of a tick discards none.
C24_NoLostPulse ==
    obstruction_pc = "idle" => tally.pulses = tally.read + obstruction_low_count

-----------------------------------------------------------------------------
(* The completion of the synchronisation, under SpecSync. *)

\* the flag a decoded frame of the opener sets, if any
FlagOf(f, known) ==
    CASE f.cmd = "STATUS" -> {"QSF_STATUS"}
      [] f.cmd = "EXT_STATUS" -> {"QSF_EXT_STATUS"}
      [] f.cmd = "TTC_DURATION" -> {"QSF_TCC_DUR"}
      [] f.cmd = "OPENINGS" -> IF f.nibble = 0 \/ known # 0 THEN {"QSF_OPENINGS"} ELSE {}
      [] OTHER -> {}

\* the step calls query_status(): sync() does, and the host may
CallsQueryStatus == event'.op = "sync" \/ (event'.op = "query_status" /\ event'.ret = "NONE")

\* C25: a decoded STATUS, EXT_STATUS or TTC_DURATION frame of the opener sets its flag,
\* and an OPENINGS frame does when its nibble is 0 or openings is known; no flag is
\* cleared but by a call of query_status(); and an attempt of the retry loop returns
\* DONE, and is not scheduled again, exactly when all four flags are set.
C25_CompletionCounts ==
    [][/\ Decoded /\ event'.frame.fixed_id # REMOTE_ID =>
             query_status_flags_' = query_status_flags_ \cup FlagOf(event'.frame, openings)
       /\ ~ (query_status_flags_ \subseteq query_status_flags_') => CallsQueryStatus
       /\ Attempt => /\ event'.ret = "DONE" <=> query_status_flags_ = QSF_ALL
                     /\ event'.ret = "DONE" => ~ QueryPending(timers')]_vars

\* as first stated: once a frame of each of the four commands was decoded since
\* query_status() was called, the next attempt returns DONE and is the last
C25_Original ==
    [][Attempt /\ event.heard = Answers =>
          event'.ret = "DONE" /\ ~ QueryPending(timers')]_vars

\* frames of all four commands were decoded, the OPENINGS frame not in answer to a
\* request while openings was unknown, and the attempt that followed tried again
C25_Witness ==
    /\ event.op = "query_status"
    /\ event.ret = "RETRY"
    /\ event.heard = Answers
    /\ query_status_flags_ = QSF_ALL \ {"QSF_OPENINGS"}
    /\ openings = 0

-----------------------------------------------------------------------------
(* The receive framer: bytes arrive one at a time, any of the preamble's values or a
   stray one while the framer hunts, and the bytes of a packet, numbered from 16, while
   it stores. *)

MaxBytes == 22
MaxFramerFrames == 2
StrayByte == 170
FramerFrames == {StatusFrame(1), Frame(OTHER_ID, "LIGHT", 1, 0, 0)}

\* the bytes the line may carry next
NextBytes == IF reading_msg THEN {16 + rx_stream.stored} ELSE PreambleBytes \cup {StrayByte}

InitFramer == InitWith(0, 0, 0, TRUE, 0, MaxFramerFrames)

Receive ==
    /\ rx_stream.consumed < MaxBytes
    /\ \E b \in NextBytes :
       \E f \in FramerFrames \cup {NoFrame} :
       \E o \in OutsideOutcomes : LoopByte(b, f, o)

NextFramer == Receive \/ Loop(NoFrame)

SpecFramer == InitFramer /\ [][NextFramer]_vars

\* the preamble is recognised by this step
Recognised == ~ reading_msg /\ reading_msg'

\* C26: the framer writes rx_packet below PACKET_LENGTH only; when the preamble is
\* recognised the next byte goes to position 3; and a packet is decoded when exactly 16
\* bytes were stored after the preamble, the k-th of them at position 2 + k.
C26_FramerAligned ==
    /\ [](reading_msg => byte_count < PACKET_LENGTH)
    /\ [][/\ Recognised => byte_count' = 3
          /\ Decoded => /\ rx_stream'.stored = PACKET_LENGTH - 3
                        /\ \A k \in 1..(PACKET_LENGTH - 3) : rx_packet'[2 + k] = 15 + k
                        /\ \A i \in 0..2 : rx_packet'[i] = << 85, 1, 0 >>[i + 1]]_vars

-----------------------------------------------------------------------------
(* The rolling values and the releases of what was written to the line, under SpecTx
   and SpecLine. *)

\* C27: two frames written to the line carry the same rolling value only if the
\* earlier is the press of a door command and the later its release.
C27_RollingReuse ==
    \A i \in DOMAIN wire : \A j \in DOMAIN wire :
        (i < j /\ wire[i].rolling = wire[j].rolling) =>
            IsPress(wire[i]) /\ IsReleaseOf(wire[j], wire[i])

\* SpecLine, and time passes until the timers that were set are due
SpecRelease == SpecLine /\ WF_vars(Advance(0, TxHorizon))

\* every press written to the line is followed there by its release
AllReleased ==
    \A i \in DOMAIN wire :
        IsPress(wire[i]) => \E j \in (i + 1)..Len(wire) : IsReleaseOf(wire[j], wire[i])

\* C28: if the line stays idle from some time on, a press written to the line is in
\* the end followed by its release, whatever was pending when the release was due.
C28_PressReleased == (<>[](~ input_gdo_pin)) => ((~ AllReleased) ~> AllReleased)

====
